---- MODULE Spec2Model ----
(***************************************************************************)
(* Model of the Wazuh -> PostgreSQL incremental loader                     *)
(* (Implementation/etl_wazuh_to_pg.py).                                    *)
(*                                                                         *)
(* The alerts file is a growing sequence of lines; the state file holds    *)
(* the text of the last watermark; the sink is the logs table, a bag of    *)
(* rows, with the unique index ux_logs_raw_sha256.  One loader process     *)
(* walks through main(): exists check, connect, index bootstrap,           *)
(* get_last_ts, the per-line loop, save_last_ts, summary.                   *)
(***************************************************************************)
EXTENDS Integers, Sequences, FiniteSets, Bags, TLC

(***************************************************************************)
(* Bounds of the model.                                                    *)
(***************************************************************************)
\* longest alerts file the producer writes
MaxLines == 4

\* longest alerts file when two loader processes run at once
ConcLines == 2

(***************************************************************************)
(* Timestamps.  An instant is an integer; a timestamp text carries a wall  *)
(* clock reading and, unless naive, a UTC offset.                          *)
(***************************************************************************)
\* dt.datetime.min.replace(tzinfo=utc): below every instant a text denotes
MinTs == 0

\* Python's None for a timestamp that could not be parsed
NoneTs == 0 - 1

Absent  == [kind |-> "absent",  wall |-> 0, aware |-> FALSE, off |-> 0]
Empty   == [kind |-> "empty",   wall |-> 0, aware |-> FALSE, off |-> 0]
Garbage == [kind |-> "garbage", wall |-> 0, aware |-> FALSE, off |-> 0]
Naive(w)     == [kind |-> "time", wall |-> w, aware |-> FALSE, off |-> 0]
Aware(w, o)  == [kind |-> "time", wall |-> w, aware |-> TRUE,  off |-> o]

\* mutant: replace(tzinfo=utc) for aware readings too, the offset dropped
utcifyWall(t) == t.wall

\* utcify(dtp.parse(text)): a naive reading is taken as UTC, an aware one
\* is moved to UTC by subtracting its offset
utcify(t) == IF t.aware THEN t.wall - t.off ELSE t.wall

\* parse_ts(value): None for a falsy value or one dateutil rejects
parse_ts(v) ==
    IF v.kind \in {"absent", "empty"} THEN NoneTs
    ELSE IF v.kind = "garbage" THEN NoneTs
    ELSE utcify(v)

\* j.get("@timestamp") or j.get("timestamp"): the first truthy value
FirstTruthy(a, b) == IF a.kind \in {"absent", "empty"} THEN b ELSE a

\* to_inet(v): the value itself when it is an IP literal, else None
to_inet(v) == IF v = "ip" THEN "ip" ELSE "none"

(***************************************************************************)
(* Lines of the alerts file.  bytes identifies the text left after         *)
(* strip(); pad says whether the raw line carries surrounding whitespace;  *)
(* the other fields are what json.loads makes of the stripped text.        *)
(***************************************************************************)
Line(b, p, js, at, ts, ag, ip) ==
    [bytes |-> b, pad |-> p, json |-> js, atTimestamp |-> at,
     timestamp |-> ts, agent |-> ag, srcip |-> ip]

\* valid, naive timestamp 2
LA == Line(1, FALSE, "object", Absent, Naive(2), "object", "ip")
\* valid, the same instant 2 written with an offset, hostname as srcip
LB == Line(2, FALSE, "object", Aware(3, 1), Absent, "absent", "host")
\* valid, instant 3, raw line padded with whitespace
LC == Line(3, TRUE, "object", Empty, Naive(3), "object", "absent")
\* valid, instant 1
LD == Line(4, FALSE, "object", Absent, Aware(1, 0), "object", "ip")
\* not JSON
LM == Line(5, FALSE, "malformed", Absent, Absent, "absent", "absent")
\* an object whose @timestamp is unparsable (it wins over timestamp)
LN == Line(6, FALSE, "object", Garbage, Naive(3), "object", "absent")
\* JSON, but a list
LX == Line(7, FALSE, "nonobject", Absent, Absent, "absent", "absent")
\* valid timestamp 3, "agent" is a string
LW == Line(8, FALSE, "object", Absent, Naive(3), "string", "absent")
\* whitespace only
LBlank == Line(0, TRUE, "blank", Absent, Absent, "absent", "absent")

\* what one producer writes: a small family of lines
Families == { {LA, LM, LD}, {LB, LC}, {LA, LB}, {LX, LC}, {LW, LN, LBlank} }

AllLines == UNION Families

\* line.strip(): the text without surrounding whitespace
strip(l) == [l EXCEPT !.pad = FALSE]

\* hashlib.sha256(line.encode()).hexdigest(): one digest per text
sha256(l) == l.bytes

\* json.loads(line) raises
JsonFails(l) == l.json = "malformed"

\* j.get(...) raises AttributeError: j is not a dict
NotADict(l) == l.json = "nonobject"

\* parse_ts(j.get("@timestamp") or j.get("timestamp"))
LineTs(l) == parse_ts(FirstTruthy(l.atTimestamp, l.timestamp))

\* agent.get(...) raises AttributeError: (j.get("agent") or {}) is a str
FlattenFails(l) == l.agent = "string"

\* the row the INSERT carries
Row(l) == [ts |-> LineTs(l), src_ip |-> to_inet(l.srcip), raw_sha256 |-> sha256(l)]

(***************************************************************************)
(* State.                                                                  *)
(***************************************************************************)
VARIABLES
    family,        \* the lines the producer may write
    alertsExists,  \* ALERTS_PATH exists
    alerts,        \* the raw lines of ALERTS_PATH
    STATE_FILE,    \* the content of the state file
    ux,            \* the unique index ux_logs_raw_sha256 exists
    logs,          \* the logs table, a bag of rows
    loader,        \* the local state of each loader process
    obs,           \* history: what the run in progress started from and did
    prev,          \* history: how the last ended run started and ended
    ask            \* the /ask request in progress at the query front end

vars == <<family, alertsExists, alerts, STATE_FILE, ux, logs, loader, obs, prev, ask>>

Procs == {1, 2}

\* the single ingestion worker of a source/checkpoint pair
SingleWriter == {1}

Idle ==
    [pc |-> "idle", pos |-> 0, last_ts |-> MinTs, new_ts |-> MinTs,
     inserted |-> 0, scanned |-> 0, skipped_old |-> 0, skipped_dupe |-> 0]

\* history of a run: the state file, table and file length it started from,
\* the state-file reads and writes it made, the lines it dropped uncounted,
\* the INSERTs that raised
NoObs ==
    [ckpt0 |-> Absent, logs0 |-> EmptyBag, len0 |-> 0, reads |-> 0,
     writes |-> 0, dropped |-> 0, sinkErrors |-> 0, after |-> "none", afterN |-> 0,
     raced |-> FALSE]

\* history of the last ended run, as long as nothing happened since: "clean"
\* when it completed with no INSERT raising over a file that did not grow,
\* "stopped" when it ended before its state-file write over a file that did
\* not grow, and then the number of rows it had inserted
NoPrev == [kind |-> "none", inserted |-> 0]

\* no /ask request in progress: the text the model returned (raw), the
\* statement extract_sql returned (extracted), the statement after the LIMIT
\* step (sql), the statement handed to cur.execute (executed); texts are
\* sequences of words
AskIdle == [pc |-> "idle", raw |-> <<>>, extracted |-> <<>>, sql |-> <<>>,
            executed |-> <<>>]

\* the texts an operator or a restore may leave in the state file
StateTexts == {Absent, Garbage, Aware(3, 1), Naive(3)}

Init ==
    /\ family \in Families
    /\ alertsExists = FALSE
    /\ alerts = <<>>
    /\ STATE_FILE = Absent
    /\ ux = FALSE
    /\ logs = EmptyBag
    /\ loader = [p \in Procs |-> Idle]
    /\ obs = [p \in Procs |-> NoObs]
    /\ prev = NoPrev
    /\ ask = AskIdle

(***************************************************************************)
(* Pieces of main().                                                       *)
(***************************************************************************)
\* get_last_ts(): the instant the state file denotes, the minimum when the
\* file is missing, empty or unparsable
get_last_ts(f) == IF f.kind = "time" THEN utcify(f) ELSE MinTs

\* mutant: the text carries an offset the reading was not converted to
IsoShifted(ts) == Aware(ts, 2)

\* what save_last_ts(ts) leaves in the file: ts.astimezone(utc).isoformat()
IsoUtc(ts) == Aware(ts, 0)

\* mutant: "<" for "<="
IsOldStrict(ts, last) == ts < last

\* "if ts <= last_ts": already processed in previous runs
IsOld(ts, last) == ts <= last

\* mutant: the INSERT without its ON CONFLICT clause and index
NoConflict(row, table) == FALSE

\* ON CONFLICT (raw_sha256): a row with this digest is in the table
Conflicts(row, table) ==
    \E r \in BagToSet(table) : r.raw_sha256 = row.raw_sha256

\* mutant: "new_ts = ts", the last inserted timestamp, not the highest
RaiseToLast(new, ts) == ts

\* "if ts > new_ts: new_ts = ts"
Raise(new, ts) == IF ts > new THEN ts ELSE new

\* mutant: ">=" for ">"
AdvancedOrEqual(new, last) == new >= last

\* "if new_ts > last_ts": the state is advanced
Advanced(new, last) == new > last

\* what happens to one raw line: the path it takes through the loop body.
\* sinkRaises says whether the INSERT raises psycopg2.Error for this record;
\* without the unique index the ON CONFLICT clause itself is rejected.
Classify(raw, last, table, index, sinkRaises) ==
    LET line == strip(raw) IN
    IF line.json = "blank" THEN "blank"
    ELSE IF JsonFails(line) THEN "malformed"
    ELSE IF NotADict(line) THEN "crash"
    ELSE IF LineTs(line) = NoneTs THEN "nots"
    ELSE IF IsOld(LineTs(line), last) THEN "old"
    ELSE IF FlattenFails(line) THEN "crash"
    ELSE IF sinkRaises \/ ~index THEN "sinkerror"
    ELSE IF Conflicts(Row(line), table) THEN "dupe"
    ELSE "inserted"

\* mutant: the row is added on a conflict too, with rowcount 0
InsertRegardless(table, raw, path) ==
    IF path \in {"inserted", "dupe"} THEN table (+) SetToBag({Row(strip(raw))})
    ELSE table

\* the table after the INSERT of a line on the given path
Insert(table, raw, path) ==
    IF path = "inserted" THEN table (+) SetToBag({Row(strip(raw))}) ELSE table

\* mutant: "scanned += 1" before the empty-line test
ScansAll(path) == 1

\* "if not line: continue" comes before "scanned += 1"
Scans(path) == IF path = "blank" THEN 0 ELSE 1

\* the loader's locals after a line on the given path
Count(me, raw, path) ==
    LET ts == LineTs(strip(raw))
    IN [me EXCEPT
          !.pos = @ + 1,
          !.scanned = @ + Scans(path),
          !.skipped_old = IF path = "old" THEN @ + 1 ELSE @,
          !.skipped_dupe = IF path = "dupe" THEN @ + 1 ELSE @,
          !.inserted = IF path = "inserted" THEN @ + 1 ELSE @,
          !.new_ts = IF path = "inserted" THEN Raise(@, ts) ELSE @,
          !.pc = IF path = "crash" THEN "aborted" ELSE @]

\* how a run ends by itself: the summary is printed ("done"), sys.exit(1)
\* for a missing alerts file ("exit1"), or an exception nobody catches, from
\* open_db ("noconn"), from the DO block ("indexfail"), from the loop body
\* ("aborted"), from save_last_ts ("savefail")
Ends == {"done", "exit1", "noconn", "indexfail", "aborted", "savefail"}

\* no loader process is between start and exit
AllIdle == \A q \in Procs : loader[q].pc = "idle"

\* the history of a run as it ends
Ended(p, how) ==
    IF Len(alerts) # obs[p].len0 \/ loader[p].pc \in {"exit1", "write"} THEN NoPrev
    ELSE IF how = "done"
    THEN (IF obs[p].sinkErrors = 0 THEN [kind |-> "clean", inserted |-> 0] ELSE NoPrev)
    ELSE [kind |-> "stopped", inserted |-> loader[p].inserted]

(***************************************************************************)
(* The producer and the operator.                                          *)
(***************************************************************************)
\* the producer appends one line to an alerts file shorter than n
ProduceUpTo(n) ==
    /\ Len(alerts) < n
    /\ \E l \in family : alerts' = Append(alerts, l)
    /\ alertsExists' = TRUE
    /\ prev' = NoPrev
    /\ UNCHANGED <<ask, family, STATE_FILE, ux, logs, loader, obs>>

\* the producer appends one line to the alerts file
Produce == ProduceUpTo(MaxLines)

\* the same, where two loader processes run at once
ProduceFew == ProduceUpTo(ConcLines)

\* between runs the state file is removed, damaged, restored from an old
\* copy or set by hand
Tamper ==
    /\ AllIdle
    /\ \E t \in StateTexts : t # STATE_FILE /\ STATE_FILE' = t
    /\ prev' = NoPrev
    /\ UNCHANGED <<ask, family, alertsExists, alerts, ux, logs, loader, obs>>

\* between runs the alerts file is removed (rotated away, volume not mounted)
Remove ==
    /\ AllIdle
    /\ alertsExists
    /\ alertsExists' = FALSE
    /\ alerts' = <<>>
    /\ prev' = NoPrev
    /\ UNCHANGED <<ask, family, STATE_FILE, ux, logs, loader, obs>>

(***************************************************************************)
(* main(), one step at a time, for loader process p.                       *)
(***************************************************************************)
\* mutant: no "if not os.path.exists(ALERTS_PATH)" test, the run goes on to
\* the connection
StartNoCheck(p) ==
    /\ loader[p].pc = "idle"
    /\ loader' = [loader EXCEPT ![p].pc = "connect"]
    /\ obs' = [obs EXCEPT ![p] = [NoObs EXCEPT !.ckpt0 = STATE_FILE,
                                               !.logs0 = logs,
                                               !.len0 = Len(alerts),
                                               !.after = prev.kind,
                                               !.afterN = prev.inserted]]
    /\ prev' = NoPrev
    /\ UNCHANGED <<ask, family, alertsExists, alerts, STATE_FILE, ux, logs>>

\* lines 89-91: the alerts file is looked for
Start(p) ==
    /\ loader[p].pc = "idle"
    /\ loader' = [loader EXCEPT
                    ![p].pc = IF alertsExists THEN "connect" ELSE "exit1"]
    /\ obs' = [obs EXCEPT ![p] = [NoObs EXCEPT !.ckpt0 = STATE_FILE,
                                               !.logs0 = logs,
                                               !.len0 = Len(alerts),
                                               !.after = prev.kind,
                                               !.afterN = prev.inserted]]
    /\ prev' = NoPrev
    /\ UNCHANGED <<ask, family, alertsExists, alerts, STATE_FILE, ux, logs>>

\* lines 94-96: open_db() returns a connection
Connect(p) ==
    /\ loader[p].pc = "connect"
    /\ loader' = [loader EXCEPT ![p].pc = "index"]
    /\ UNCHANGED <<ask, family, alertsExists, alerts, STATE_FILE, ux, logs, obs, prev>>

\* line 94: open_db() raises, the process dies with the exception
ConnectFails(p) ==
    /\ loader[p].pc = "connect"
    /\ loader' = [loader EXCEPT ![p].pc = "noconn"]
    /\ UNCHANGED <<ask, family, alertsExists, alerts, STATE_FILE, ux, logs, obs, prev>>

\* lines 102-105: IF NOT EXISTS (... indexname = 'ux_logs_raw_sha256')
IndexCheck(p) ==
    /\ loader[p].pc = "index"
    /\ loader' = [loader EXCEPT ![p].pc = IF ux THEN "load" ELSE "create"]
    /\ UNCHANGED <<ask, family, alertsExists, alerts, STATE_FILE, ux, logs, obs, prev>>

\* mutant: no EXCEPTION clause in the DO block
HandlesNothing(e) == FALSE

\* lines 109-111: EXCEPTION WHEN duplicate_table THEN NULL
Handles(e) == e = "duplicate_table"

\* lines 106-111: CREATE UNIQUE INDEX; when the index has come to exist since
\* the test, the statement raises duplicate_table, which the block swallows
\* (an exception it does not swallow ends the process: "indexfail")
IndexCreate(p) ==
    /\ loader[p].pc = "create"
    /\ ux' = TRUE
    /\ loader' = [loader EXCEPT
                    ![p].pc = IF ux /\ ~Handles("duplicate_table")
                              THEN "indexfail" ELSE "load"]
    /\ obs' = [obs EXCEPT ![p].raced = ux]
    /\ UNCHANGED <<ask, family, alertsExists, alerts, STATE_FILE, logs, prev>>

\* lines 116-121: the watermark is loaded, the counters start at zero
Load(p) ==
    /\ loader[p].pc = "load"
    /\ loader' = [loader EXCEPT ![p] =
                    [Idle EXCEPT !.pc = "loop",
                                 !.last_ts = get_last_ts(STATE_FILE),
                                 !.new_ts = get_last_ts(STATE_FILE)]]
    /\ obs' = [obs EXCEPT ![p].reads = @ + 1]
    /\ UNCHANGED <<ask, family, alertsExists, alerts, STATE_FILE, ux, logs, prev>>

\* lines 125-186: the loop body for the next line of the file
Step(p) ==
    /\ loader[p].pc = "loop"
    /\ loader[p].pos < Len(alerts)
    /\ \E sinkRaises \in BOOLEAN :
         LET raw  == alerts[loader[p].pos + 1]
             path == Classify(raw, loader[p].last_ts, logs, ux, sinkRaises)
         IN /\ sinkRaises => path = "sinkerror"
            /\ logs' = Insert(logs, raw, path)
            /\ loader' = [loader EXCEPT ![p] = Count(@, raw, path)]
            /\ obs' = [obs EXCEPT
                         ![p].dropped = IF path \in {"malformed", "nots", "sinkerror"}
                                        THEN @ + 1 ELSE @,
                         ![p].sinkErrors = IF path = "sinkerror" THEN @ + 1 ELSE @]
    /\ UNCHANGED <<ask, family, alertsExists, alerts, STATE_FILE, ux, prev>>

\* lines 125, 189: the file is exhausted; the state is saved if it advanced
Eof(p) ==
    /\ loader[p].pc = "loop"
    /\ loader[p].pos = Len(alerts)
    /\ loader' = [loader EXCEPT
                    ![p].pc = IF Advanced(loader[p].new_ts, loader[p].last_ts)
                              THEN "save" ELSE "done"]
    /\ UNCHANGED <<ask, family, alertsExists, alerts, STATE_FILE, ux, logs, obs, prev>>

\* lines 75-76: open(STATE_FILE, "w") truncates the file
SaveOpen(p) ==
    /\ loader[p].pc = "save"
    /\ STATE_FILE' = Empty
    /\ loader' = [loader EXCEPT ![p].pc = "write"]
    /\ UNCHANGED <<ask, family, alertsExists, alerts, ux, logs, obs, prev>>

\* lines 75-76: makedirs or open raises, the process dies with the exception
SaveFails(p) ==
    /\ loader[p].pc = "save"
    /\ loader' = [loader EXCEPT ![p].pc = "savefail"]
    /\ UNCHANGED <<ask, family, alertsExists, alerts, STATE_FILE, ux, logs, obs, prev>>

\* line 77 and the close of the with block: the text reaches the file
SaveWrite(p) ==
    /\ loader[p].pc = "write"
    /\ STATE_FILE' = IsoUtc(loader[p].new_ts)
    /\ loader' = [loader EXCEPT ![p].pc = "done"]
    /\ obs' = [obs EXCEPT ![p].writes = @ + 1]
    /\ UNCHANGED <<ask, family, alertsExists, alerts, ux, logs, prev>>

\* lines 192-199 or an uncaught exception or sys.exit(1): the process ends
Exit(p) ==
    /\ loader[p].pc \in Ends
    /\ prev' = Ended(p, loader[p].pc)
    /\ loader' = [loader EXCEPT ![p] = Idle]
    /\ obs' = [obs EXCEPT ![p] = NoObs]
    /\ UNCHANGED <<ask, family, alertsExists, alerts, STATE_FILE, ux, logs>>

\* the process is terminated from outside at any point of a run
Kill(p) ==
    /\ loader[p].pc \in {"connect", "index", "create", "load", "loop", "save", "write"}
    /\ prev' = Ended(p, "killed")
    /\ loader' = [loader EXCEPT ![p] = Idle]
    /\ obs' = [obs EXCEPT ![p] = NoObs]
    /\ UNCHANGED <<ask, family, alertsExists, alerts, STATE_FILE, ux, logs>>

Run(p) ==
    \/ Start(p) \/ Connect(p) \/ ConnectFails(p) \/ IndexCheck(p)
    \/ IndexCreate(p) \/ Load(p) \/ Step(p) \/ Eof(p) \/ SaveOpen(p)
    \/ SaveFails(p) \/ SaveWrite(p) \/ Exit(p) \/ Kill(p)

\* a single writer: one loader process, run after run
Next == Produce \/ Tamper \/ \E p \in SingleWriter : Run(p)

Spec == Init /\ [][Next]_vars

\* the state file is written by the loader alone: runs and the producer
NextUntouched == Produce \/ \E p \in SingleWriter : Run(p)

SpecUntouched == Init /\ [][NextUntouched]_vars

\* two loader processes against the same file, table and state file, with
\* no coordination between them: the first runs again and again, the second
\* is started once, at any moment
NextConc ==
    \/ ProduceFew
    \/ \E p \in Procs :
         \/ Start(p) \/ Connect(p) \/ IndexCheck(p) \/ IndexCreate(p)
         \/ Load(p) \/ Step(p) \/ Eof(p) \/ SaveOpen(p) \/ SaveWrite(p)
    \/ \E p \in SingleWriter : Exit(p)

SpecConc == Init /\ [][NextConc]_vars

\* a single writer whose alerts file can go missing between runs
NextMissing == ProduceFew \/ Tamper \/ Remove \/ \E p \in SingleWriter : Run(p)

SpecMissing == Init /\ [][NextMissing]_vars

(***************************************************************************)
(* The query front end, main.py: POST /ask.  A text is a sequence of       *)
(* words; ";" and the code fence of three backquotes, bare ("<fence>") or   *)
(* tagged ("<fence>sql"), are words of their own.                          *)
(***************************************************************************)
\* the longest text the language model returns
MaxTokens == 3

\* MAX_ROWS = int(os.getenv("MAX_ROWS", "200"))
MAX_ROWS == 200

\* the words of the texts the language model may return
Tokens == {"SELECT", "select", "DROP", "delete", "created_at", "LIMIT", "limit",
           "logs", ";", "<fence>", "<fence>sql"}

Texts == UNION {[1..n -> Tokens] : n \in 0..MaxTokens}

\* re.IGNORECASE: a word is compared in upper case
Upper(tok) ==
    CASE tok = "select" -> "SELECT"
      [] tok = "delete" -> "DELETE"
      [] tok = "limit" -> "LIMIT"
      [] OTHER -> tok

\* the words of DENYLIST
DENYLIST ==
    {"INSERT", "UPDATE", "DELETE", "ALTER", "DROP", "TRUNCATE", "CREATE", "GRANT",
     "REVOKE"}

\* mutant: the pattern compiled without re.IGNORECASE
DENYLIST_searchCase(sql) == \E i \in 1..Len(sql) : sql[i] \in DENYLIST

\* DENYLIST.search(sql): a denylisted word between word boundaries
DENYLIST_search(sql) == \E i \in 1..Len(sql) : Upper(sql[i]) \in DENYLIST

\* re.match(r"^\s*SELECT\b", sql, re.IGNORECASE)
SelectMatch(sql) == Len(sql) > 0 /\ Upper(sql[1]) = "SELECT"

\* re.search(r"\bLIMIT\b", sql, re.IGNORECASE)
LIMIT_search(sql) == \E i \in 1..Len(sql) : Upper(sql[i]) = "LIMIT"

\* the positions of code fences in a text
Fences(text) == {i \in 1..Len(text) : text[i] \in {"<fence>", "<fence>sql"}}

\* the least element of a non-empty set of positions
First(S) == CHOOSE i \in S : \A j \in S : i <= j

\* extract_sql up to its checks: the text between the first two code
\* fences, else the text up to its first semicolon, else the text
Extracted(text) ==
    IF Cardinality(Fences(text)) >= 2
    THEN LET a == First(Fences(text))
             b == First(Fences(text) \ {a})
         IN SubSeq(text, a + 1, b - 1)
    ELSE LET semis == {i \in 1..Len(text) : text[i] = ";"}
         IN IF semis # {} THEN SubSeq(text, 1, First(semis)) ELSE text

\* extract_sql raises HTTPException(400)
Rejects(sql) == DENYLIST_search(sql) \/ ~SelectMatch(sql)

RECURSIVE rstrip(_)
\* sql.rstrip(";")
rstrip(sql) ==
    IF Len(sql) > 0 /\ sql[Len(sql)] = ";"
    THEN rstrip(SubSeq(sql, 1, Len(sql) - 1))
    ELSE sql

\* "add LIMIT if missing"
WithLimit(sql) ==
    IF LIMIT_search(sql) THEN sql
    ELSE rstrip(sql) \o <<"LIMIT", ToString(MAX_ROWS), ";">>

\* call_ollama_for_sql returns a text
Reply ==
    /\ ask.pc = "idle"
    /\ \E t \in Texts : ask' = [AskIdle EXCEPT !.pc = "extract", !.raw = t]
    /\ UNCHANGED <<family, alertsExists, alerts, STATE_FILE, ux, logs, loader, obs, prev>>

\* call_ollama_for_sql raises: the request fails before any SQL exists
ReplyFails ==
    /\ ask.pc = "idle"
    /\ ask' = [AskIdle EXCEPT !.pc = "llmerror"]
    /\ UNCHANGED <<family, alertsExists, alerts, STATE_FILE, ux, logs, loader, obs, prev>>

\* extract_sql returns the statement or raises
Extract ==
    /\ ask.pc = "extract"
    /\ ask' = [ask EXCEPT
                 !.extracted = Extracted(ask.raw),
                 !.pc = IF Rejects(Extracted(ask.raw)) THEN "rejected" ELSE "limit"]
    /\ UNCHANGED <<family, alertsExists, alerts, STATE_FILE, ux, logs, loader, obs, prev>>

\* lines 189-190: LIMIT MAX_ROWS is added when there is none
AddLimit ==
    /\ ask.pc = "limit"
    /\ ask' = [ask EXCEPT !.sql = WithLimit(ask.extracted), !.pc = "run"]
    /\ UNCHANGED <<family, alertsExists, alerts, STATE_FILE, ux, logs, loader, obs, prev>>

\* run_sql: the statement is executed, the rows come back or the database
\* raises (HTTP 400 with the database's message)
RunSql ==
    /\ ask.pc = "run"
    /\ \E outcome \in {"answered", "sqlerror"} :
          ask' = [ask EXCEPT !.executed = ask.sql, !.pc = outcome]
    /\ UNCHANGED <<family, alertsExists, alerts, STATE_FILE, ux, logs, loader, obs, prev>>

\* the response is sent
Respond ==
    /\ ask.pc \in {"answered", "sqlerror", "rejected", "llmerror"}
    /\ ask' = AskIdle
    /\ UNCHANGED <<family, alertsExists, alerts, STATE_FILE, ux, logs, loader, obs, prev>>

\* /ask requests, one after another
NextAsk == Reply \/ ReplyFails \/ Extract \/ AddLimit \/ RunSql \/ Respond

SpecAsk == Init /\ [][NextAsk]_vars

(***************************************************************************)
(* Vocabulary of the properties.                                           *)
(***************************************************************************)
\* the writer of the single-writer specifications
w == CHOOSE p \in SingleWriter : TRUE

\* a line that decodes: a JSON object with a parsable timestamp
Decodable(l) == strip(l).json = "object" /\ LineTs(strip(l)) # NoneTs

\* the lines the run in progress has read so far
Read(p) == {alerts[i] : i \in 1..loader[p].pos}

\* the rows of the table that carry the digest of line l
RowsOf(l, table) == {r \in BagToSet(table) : r.raw_sha256 = sha256(strip(l))}

\* how many rows of the table carry the digest of line l
Stored(l, table) ==
    LET rs == RowsOf(l, table)
    IN IF rs = {} THEN 0
       ELSE BagCardinality([r \in rs |-> CopiesIn(r, table)])

\* the run of p completed and no INSERT of it raised
CleanDone(p) == loader[p].pc = "done" /\ obs[p].sinkErrors = 0

(***************************************************************************)
(* C1  Dedup correctness: whatever runs happened (complete, killed at any  *)
(* point, re-run), the table never holds two rows with the same digest, so *)
(* a line and its verbatim repeats account for at most one row.            *)
(***************************************************************************)
C1_DedupCorrect ==
    /\ \A l \in AllLines : Stored(l, logs) <= 1
    /\ \A r \in BagToSet(logs) : \E i \in 1..Len(alerts) : Row(strip(alerts[i])) = r

\* a repeated line has been read twice in one run and is stored once, in a
\* table that already held rows when the run began
C1_Witness ==
    /\ \E i, j \in 1..loader[w].pos :
         i < j /\ alerts[i] = alerts[j] /\ Stored(alerts[i], logs) = 1
    /\ loader[w].skipped_dupe >= 2
    /\ obs[w].logs0 # EmptyBag

(***************************************************************************)
(* C2  No event is permanently lost: once a run has completed with no      *)
(* INSERT raising, every decodable line it read is in the table, whatever  *)
(* the earlier runs did (an INSERT that raised, a kill before the state    *)
(* file write, lines appended between runs).  The state file is touched by *)
(* the loader alone.                                                       *)
(***************************************************************************)
C2_NoEventLost ==
    CleanDone(w) => \A l \in Read(w) : Decodable(l) => Stored(l, logs) >= 1

(***************************************************************************)
(* C3  The watermark is a pruning hint only: whatever the state file held  *)
(* when the run began, a complete run with no INSERT raising leaves the    *)
(* table with exactly one row for each distinct decodable line it read.    *)
(***************************************************************************)
C3_WatermarkIsHintOnly ==
    CleanDone(w) =>
        /\ \A l \in Read(w) : Stored(l, logs) = (IF Decodable(l) THEN 1 ELSE 0)
        /\ BagCardinality(logs) = Cardinality({sha256(strip(l)) : l \in {x \in Read(w) : Decodable(x)}})

(***************************************************************************)
(* C4  Idempotence: in a run that follows a complete run with no INSERT    *)
(* raising, over a file that did not grow and a state file nobody touched, *)
(* and in which no INSERT raises, nothing is inserted, the table stays as  *)
(* it was, and the state file is neither opened for writing nor changed.   *)
(***************************************************************************)
C4_Idempotent ==
    (/\ obs[w].after = "clean"
     /\ obs[w].sinkErrors = 0
     /\ Len(alerts) = obs[w].len0)
    => /\ loader[w].inserted = 0
       /\ logs = obs[w].logs0
       /\ obs[w].writes = 0
       /\ loader[w].pc \notin {"save", "write", "savefail"}
       /\ STATE_FILE = obs[w].ckpt0

\* the second run completed after reading at least two lines, one of them
\* at or below the watermark, with rows in the table
C4_Witness ==
    /\ obs[w].after = "clean"
    /\ CleanDone(w)
    /\ Len(alerts) = obs[w].len0
    /\ loader[w].scanned >= 2
    /\ loader[w].skipped_old >= 1
    /\ logs # EmptyBag

(***************************************************************************)
(* C5  Crash-resume: the last run stopped before its state-file write      *)
(* after inserting N rows; the file did not grow and nobody touched the    *)
(* state file.  The next run, completed with no INSERT raising, inserts    *)
(* the records still eligible (M-N), counts the N as duplicates and none   *)
(* of them as old, leaves the table with the rows it had plus M-N, and,    *)
(* when there was anything eligible (M >= 1), writes the state file once   *)
(* and with a higher watermark.                                            *)
(***************************************************************************)
\* the digests of the decodable lines above the loaded watermark that the
\* table did not hold when the run began
Eligible(p) ==
    {sha256(strip(l)) : l \in {x \in Read(p) :
        /\ Decodable(x)
        /\ LineTs(strip(x)) > loader[p].last_ts
        /\ Stored(x, obs[p].logs0) = 0}}

\* the lines read that the loop counts as old
OldRead(p) ==
    {i \in 1..loader[p].pos :
        Decodable(alerts[i]) /\ LineTs(strip(alerts[i])) <= loader[p].last_ts}

C5_CrashResume ==
    (/\ obs[w].after = "stopped"
     /\ CleanDone(w)
     /\ Len(alerts) = obs[w].len0)
    => LET N == obs[w].afterN
           M == N + Cardinality(Eligible(w))
       IN /\ loader[w].inserted = M - N
          /\ loader[w].skipped_dupe >= N
          /\ loader[w].skipped_old = Cardinality(OldRead(w))
          /\ BagCardinality(logs) = BagCardinality(obs[w].logs0) + (M - N)
          /\ M >= 1 => /\ obs[w].writes = 1
                       /\ get_last_ts(STATE_FILE) > get_last_ts(obs[w].ckpt0)

C7_Scenario ==
    /\ loader[w].pc = "done"
    /\ loader[w].pos = 4
    /\ SubSeq(alerts, 1, 4) = <<LA, LM, LA, LD>>
    /\ obs[w].logs0 = EmptyBag
    /\ obs[w].ckpt0.kind = "time"
    /\ get_last_ts(obs[w].ckpt0) = LineTs(LA)
    /\ LineTs(LD) = LineTs(LA) - 1

C8_Kind(l) ==
    \/ Decodable(l)
    \/ JsonFails(strip(l))
    \/ strip(l).json = "object" /\ LineTs(strip(l)) = NoneTs
    \/ strip(l).json = "blank"

C8_MalformedTolerance ==
    (\A l \in Read(w) : C8_Kind(l)) =>
        /\ loader[w].pc # "aborted"
        /\ CleanDone(w) =>
             /\ BagCardinality(logs) - BagCardinality(obs[w].logs0)
                  = Cardinality(Eligible(w))
             /\ \A l \in Read(w) : ~Decodable(l) => Stored(l, logs) = 0

(***************************************************************************)
(* C9  Per-record conditions never abort a run: no line and no INSERT that *)
(* raises ends the run; a run ends abnormally only for a missing alerts    *)
(* file, a refused connection or a failed state-file write, and a run that *)
(* reaches its end has processed every line the file held when it began.   *)
(***************************************************************************)
C9_RecordsNeverAbort ==
    loader[w].pc \in Ends =>
        /\ loader[w].pc \in {"done", "exit1", "noconn", "savefail"}
        /\ loader[w].pc \in {"done", "savefail"} => loader[w].pos >= obs[w].len0

(***************************************************************************)
(* C10  Summary accounting.                                                *)
(***************************************************************************)
\* the non-empty lines among those read
NonEmptyRead(p) == {i \in 1..loader[p].pos : strip(alerts[i]).json # "blank"}

c == CHOOSE p \in Procs : p # w

\* the lines read that are decodable and above the loaded watermark
NewRead(p) ==
    {i \in 1..loader[p].pos :
        Decodable(alerts[i]) /\ LineTs(strip(alerts[i])) > loader[p].last_ts}

\* both runs completed side by side from the same watermark and table
C11_BothDone ==
    /\ CleanDone(w) /\ CleanDone(c)
    /\ loader[w].last_ts = loader[c].last_ts
    /\ obs[w].logs0 = obs[c].logs0
    /\ loader[w].pos = loader[c].pos

C11_ConcurrentNoDuplicates ==
    C11_BothDone =>
        /\ \A l \in Read(w) :
             (Decodable(l) /\ LineTs(strip(l)) > loader[w].last_ts)
                => Stored(l, logs) = 1
        /\ loader[w].inserted + loader[c].inserted = Cardinality(Eligible(w))
        /\ loader[w].inserted + loader[c].inserted
             = BagCardinality(logs) - BagCardinality(obs[w].logs0)
        /\ \A p \in Procs :
             loader[p].inserted + loader[p].skipped_dupe = Cardinality(NewRead(p))

\* the two runs raced: each inserted a row the other counted as duplicate
C11_Witness ==
    /\ C11_BothDone
    /\ loader[w].inserted >= 1 /\ loader[c].inserted >= 1
    /\ loader[w].skipped_dupe >= 1 /\ loader[c].skipped_dupe >= 1

(***************************************************************************)
(* C12  Timestamp normalization: the watermark test and the stored ts use  *)
(* UTC instants.  A text without offset counts as UTC, a text with an      *)
(* offset as its wall reading minus the offset; the lines a run counts as  *)
(* old are the decodable lines whose instant is at or before the instant   *)
(* of the state file; every row carries the instant of its line; and two   *)
(* lines denoting one instant, whatever their offsets, fall on the same    *)
(* side of the watermark test.                                             *)
(***************************************************************************)
\* the UTC instant a timestamp text denotes
Instant(t) == t.wall - (IF t.aware THEN t.off ELSE 0)

\* the instant of a decodable line
InstantOf(l) == Instant(FirstTruthy(strip(l).atTimestamp, strip(l).timestamp))

\* the instant of the watermark a state-file content stands for
Watermark(f) == IF f.kind = "time" THEN Instant(f) ELSE MinTs

C12_TimestampsNormalized ==
    /\ \A r \in BagToSet(logs) :
         \E l \in AllLines :
            Decodable(l) /\ sha256(strip(l)) = r.raw_sha256 /\ r.ts = InstantOf(l)
    /\ loader[w].pc \in {"loop", "save", "write", "done", "savefail"} =>
         /\ loader[w].skipped_old =
              Cardinality({i \in 1..loader[w].pos :
                 Decodable(alerts[i])
                   /\ InstantOf(alerts[i]) <= Watermark(obs[w].ckpt0)})
         /\ \A k, l \in Read(w) :
              (Decodable(k) /\ Decodable(l) /\ InstantOf(k) = InstantOf(l))
                => (IsOld(LineTs(strip(k)), loader[w].last_ts)
                      <=> IsOld(LineTs(strip(l)), loader[w].last_ts))

\* a completed run read a naive line and a line with an offset that denote
\* the instant of a state file written with an offset, and counted both old
C12_Witness ==
    /\ loader[w].pc = "done"
    /\ {LA, LB} \subseteq Read(w)
    /\ obs[w].ckpt0.kind = "time" /\ obs[w].ckpt0.aware /\ obs[w].ckpt0.off # 0
    /\ Watermark(obs[w].ckpt0) = InstantOf(LA)
    /\ loader[w].skipped_old >= 2

(***************************************************************************)
(* C13  Checkpoint ordering: a run reads the state file once, before its   *)
(* first line; it writes it at most once, after it has processed every     *)
(* line and only if new_ts is above the loaded last_ts; until save_last_ts *)
(* is entered the state file holds what it held when the run began.        *)
(***************************************************************************)
C13_CheckpointOrdering ==
    /\ loader[w].pc \in {"connect", "index", "create", "load", "exit1", "noconn"} =>
         /\ obs[w].reads = 0
         /\ loader[w].pos = 0
    /\ loader[w].pc \in {"loop", "save", "write", "done", "aborted", "savefail"} =>
         obs[w].reads = 1
    /\ loader[w].pc \in {"connect", "index", "create", "load", "loop", "save",
                         "exit1", "noconn", "aborted", "savefail"} =>
         /\ STATE_FILE = obs[w].ckpt0
         /\ obs[w].writes = 0
    /\ loader[w].pc \in {"write", "done"} =>
         /\ obs[w].writes <= 1
         /\ (loader[w].pc = "write" \/ obs[w].writes = 1) =>
              /\ loader[w].new_ts > loader[w].last_ts
              /\ loader[w].last_ts = get_last_ts(obs[w].ckpt0)
              /\ loader[w].pos >= obs[w].len0
              /\ loader[w].pos = loader[w].scanned + Cardinality(
                    {i \in 1..loader[w].pos : strip(alerts[i]).json = "blank"})
         /\ obs[w].writes = 0 /\ loader[w].pc = "done" => STATE_FILE = obs[w].ckpt0

\* a completed run over several lines read the state file once and wrote
\* it once
C13_Witness ==
    /\ loader[w].pc = "done"
    /\ obs[w].reads = 1
    /\ obs[w].writes = 1
    /\ loader[w].pos >= 3
    /\ obs[w].ckpt0.kind = "time"

(***************************************************************************)
(* C14  Interruption safety of the checkpoint: at whatever point a run is  *)
(* terminated, inside save_last_ts included, the watermark the next run    *)
(* would load from the state file as it stands is the watermark the file   *)
(* held when the run began or the run's new high watermark, and is never   *)
(* below the former.                                                       *)
(***************************************************************************)
\* the points at which a run can be terminated from outside
KillPoints == {"connect", "index", "create", "load", "loop", "save", "write"}

C14_InterruptionSafe ==
    loader[w].pc \in KillPoints =>
        /\ get_last_ts(STATE_FILE) \in
             {get_last_ts(obs[w].ckpt0), loader[w].new_ts}
        /\ get_last_ts(STATE_FILE) >= get_last_ts(obs[w].ckpt0)

(***************************************************************************)
(* C15  Watermark meaning: from an absent state file and an empty table,   *)
(* with the state file written by the loader alone, after every completed  *)
(* run the watermark in the state file is the highest ts of the rows in    *)
(* the table (the minimum when there is none).                             *)
(***************************************************************************)
\* the highest ts stored, the minimum for an empty table
HighestStored ==
    IF logs = EmptyBag THEN MinTs
    ELSE CHOOSE t \in {r.ts : r \in BagToSet(logs)} :
            \A r \in BagToSet(logs) : r.ts <= t

C15_WatermarkMeaning ==
    loader[w].pc = "done" => get_last_ts(STATE_FILE) = HighestStored

(***************************************************************************)
(* C16  Classification of a decoded record, one loop step of the writer:   *)
(* at or below the loaded watermark it counts as skipped_old and nothing   *)
(* is sent to the table; above it with its digest already stored (and the  *)
(* INSERT not raising) it counts as skipped_dupe; inserted goes up exactly *)
(* when a row is added, and only then new_ts moves, to the larger of       *)
(* itself and the record's ts; the comparison is with last_ts, which the   *)
(* loop never changes, not with new_ts.                                    *)
(***************************************************************************)
\* the writer's loop takes one line
C16_Step == loader[w].pc = "loop" /\ loader'[w].pos = loader[w].pos + 1

C17_MissingSourceFatal ==
    [][/\ (loader[w].pc = "idle" /\ loader'[w].pc # "idle" /\ ~alertsExists) =>
             loader'[w].pc = "exit1"
       /\ loader'[w].pc = "exit1" =>
             /\ loader[w].pc \in {"idle", "exit1"}
             /\ ~alertsExists \/ loader[w].pc = "exit1"
             /\ obs'[w].reads = 0
             /\ UNCHANGED <<logs, ux, STATE_FILE>>
       /\ loader[w].pc = "exit1" =>
             /\ loader'[w].pc \in {"exit1", "idle"}
             /\ UNCHANGED <<logs, ux, STATE_FILE>>
    ]_vars

\* the run ended on the missing file with rows, index and watermark in place
C17_Witness ==
    /\ loader[w].pc = "exit1"
    /\ ~alertsExists
    /\ logs # EmptyBag
    /\ ux
    /\ STATE_FILE.kind = "time"

(***************************************************************************)
(* C18  The bootstrap is idempotent, two loaders at once included: no      *)
(* loader ends in the DO block, whether it finds the index present, absent *)
(* or created by the other loader since its own test, and past the block   *)
(* the unique index ux_logs_raw_sha256 exists (an index name is held by    *)
(* one index at most).                                                     *)
(***************************************************************************)
PastBootstrap == {"load", "loop", "save", "write", "done", "aborted", "savefail"}

WordsOf(text) == {Upper(text[i]) : i \in 1..Len(text)}

\* a generated statement passes the two checks of the gate
C19_Passes(text) ==
    /\ text # <<>>
    /\ Upper(text[1]) = "SELECT"
    /\ WordsOf(text) \cap DENYLIST = {}

C19_QueryGate ==
    /\ ask.executed # <<>> =>
         /\ C19_Passes(ask.executed)
         /\ "LIMIT" \in WordsOf(ask.executed)
         /\ "LIMIT" \in WordsOf(ask.extracted) => ask.executed = ask.extracted
         /\ "LIMIT" \notin WordsOf(ask.extracted) =>
              LET n == Len(ask.executed) - 3
              IN /\ n >= 1
                 /\ SubSeq(ask.executed, n + 1, n + 3) = <<"LIMIT", "200", ";">>
                 /\ n <= Len(ask.extracted)
                 /\ SubSeq(ask.executed, 1, n) = SubSeq(ask.extracted, 1, n)
                 /\ ask.executed[n] # ";"
                 /\ \A i \in (n + 1)..Len(ask.extracted) : ask.extracted[i] = ";"
    /\ ask.pc \in {"limit", "run", "answered", "sqlerror"} => C19_Passes(ask.extracted)
    /\ ask.pc \in {"answered", "sqlerror"} => ask.executed # <<>>
    /\ ask.pc = "rejected" =>
         /\ ~C19_Passes(ask.extracted)
         /\ ask.executed = <<>>
    /\ ask.pc \in {"idle", "extract", "limit", "run", "llmerror"} => ask.executed = <<>>

\* a lower-case SELECT over created_at, closed by a semicolon and with no
\* LIMIT, has been executed
C19_Witness ==
    /\ ask.pc = "answered"
    /\ ask.raw = <<"select", "created_at", ";">>
    /\ ask.executed = <<"select", "created_at", "LIMIT", "200", ";">>

(***************************************************************************)
(* C20  The inserted counter matches the growth of the table: at every     *)
(* point of a run of the single writer, up to its end or to the point      *)
(* where it is terminated, inserted is the number of rows the table has    *)
(* gained since the run started, and every row the table held then is      *)
(* still in it, as many times.                                             *)
(***************************************************************************)
C20_InsertedMatchesGrowth ==
    loader[w].pc # "idle" =>
        /\ loader[w].inserted =
             BagCardinality(logs) - BagCardinality(obs[w].logs0)
        /\ \A r \in BagToSet(obs[w].logs0) :
             CopiesIn(r, logs) = CopiesIn(r, obs[w].logs0)

\* over a table that held rows already, the run has met a duplicate and
\* added a row
C20_Witness ==
    /\ loader[w].pc = "loop"
    /\ obs[w].logs0 # EmptyBag
    /\ loader[w].skipped_dupe >= 1
    /\ loader[w].inserted >= 1
    /\ BagCardinality(logs) = BagCardinality(obs[w].logs0) + loader[w].inserted

====
